---------------------------- MODULE Spec2Model ----------------------------
(***************************************************************************)
(* Trading journal: the trade table, the PnL computation, the validation   *)
(* of a trade payload and the create / read / update / delete operations   *)
(* of app/domains/trade (service.py, repository.py, models.py) and         *)
(* app/core/error_handlers.py.                                             *)
(*                                                                         *)
(* Values.                                                                 *)
(*   None        Python None / SQL NULL: the empty tuple << >>.            *)
(*   Some(x)     a present nullable value: the 1-tuple <<x>>.              *)
(*   Decimal     a pair <<hi, lo>> that denotes hi * 2^53 + lo, with       *)
(*               |lo| far below 2^53.  Small numbers are <<0, n>>; the     *)
(*               pairs with hi # 0 are the decimals with more significant  *)
(*               digits than an IEEE double holds, which is where float()  *)
(*               stops being exact.                                        *)
(*   symbol      a sequence of one-character strings.                      *)
(***************************************************************************)
EXTENDS Integers, Sequences, FiniteSets, TLC

VARIABLES
    trades,     \* the trades table: id -> row
    next_id,    \* the table's id sequence (auto-increment)
    clock,      \* the storage engine's NOW()
    supplied,   \* history: id -> the values a caller last supplied for the trade
    call,       \* the last operation: its name, arguments and outcome
    inflight,   \* the update requests being served, statement by statement
    db,         \* app.core.db: the module's _pool, the init_db_pool call, the lifespan
    requests    \* the requests in flight and the connections the pool has handed out

vars == <<trades, next_id, clock, supplied, call, inflight, db, requests>>

None == << >>
Some(x) == <<x>>

----------------------------------------------------------------------------
(* Decimal arithmetic on <<hi, lo>> = hi * 2^53 + lo.                      *)

D(n) == <<0, n>>
Big(n) == <<1, n>>

DecNeg(a) == <<0 - a[1], 0 - a[2]>>
DecAdd(a, b) == <<a[1] + b[1], a[2] + b[2]>>
DecSub(a, b) == <<a[1] - b[1], a[2] - b[2]>>
\* one factor at least is below 2^53 (hi = 0) in every product the model forms
DecMul(a, b) == <<a[1] * b[2] + a[2] * b[1], a[2] * b[2]>>
DecLt(a, b) == a[1] < b[1] \/ (a[1] = b[1] /\ a[2] < b[2])
DecLe(a, b) == a = b \/ DecLt(a, b)
DecZero == <<0, 0>>

RECURSIVE Log2(_)
Log2(n) == IF n <= 1 THEN 0 ELSE 1 + Log2(n \div 2)

RECURSIVE Pow2(_)
Pow2(k) == IF k <= 0 THEN 1 ELSE 2 * Pow2(k - 1)

IsPow2(n) == n = Pow2(Log2(n))

\* q or q + 1, whichever n / u is nearer to; the even one on a tie
RoundHalfEven(n, u) ==
    LET q == n \div u
        r == n % u
    IN  IF 2 * r < u THEN q
        ELSE IF 2 * r > u THEN q + 1
        ELSE IF q % 2 = 0 THEN q ELSE q + 1

\* float(d) for d >= 0: the nearest double (53-bit significand, ties to even).
\* Below 2^53 every integer is a double.  From 2^(53+e) to 2^(54+e) doubles are
\* 2^(e+1) apart; hi * 2^53 is one of them, so only lo is rounded.
FloatOfNonNeg(d) ==
    LET hi == d[1]
        lo == d[2]
        ulp == IF lo < 0 /\ IsPow2(hi) THEN Pow2(Log2(hi)) ELSE Pow2(Log2(hi) + 1)
    IN  IF hi = 0 THEN d
        ELSE <<hi, RoundHalfEven(lo, ulp) * ulp>>

\* float(d): Python's conversion of a Decimal to a double
ToFloat(d) ==
    IF DecLt(d, DecZero) THEN DecNeg(FloatOfNonNeg(DecNeg(d))) ELSE FloatOfNonNeg(d)

----------------------------------------------------------------------------
(* service.py: _compute_pnl                                                *)

_compute_pnl_sideless(side, quantity, lot_size, entry_price, exit_price, fees) ==
    IF exit_price = None THEN None
    ELSE Some(DecSub(DecMul(DecMul(DecSub(exit_price[1], entry_price), quantity),
                            lot_size), fees))

_compute_pnl_fees_added(side, quantity, lot_size, entry_price, exit_price, fees) ==
    IF exit_price = None THEN None
    ELSE LET gross == IF side = "buy"
                      THEN DecMul(DecMul(DecSub(exit_price[1], entry_price), quantity),
                                  lot_size)
                      ELSE DecMul(DecMul(DecSub(entry_price, exit_price[1]), quantity),
                                  lot_size)
         IN  Some(DecAdd(gross, fees))

_compute_pnl(side, quantity, lot_size, entry_price, exit_price, fees) ==
    IF exit_price = None THEN None
    ELSE LET gross == IF side = "buy"
                      THEN DecMul(DecMul(DecSub(exit_price[1], entry_price), quantity),
                                  lot_size)
                      ELSE DecMul(DecMul(DecSub(entry_price, exit_price[1]), quantity),
                                  lot_size)
         IN  Some(DecSub(gross, fees))

----------------------------------------------------------------------------
(* error_handlers.py: validate_trade_data.  data is a dict: a function     *)
(* from field names to None or Some(value); a key may be missing.  A       *)
(* numeric value is a Decimal pair; NotANumber stands for a value float()  *)
(* cannot parse.                                                           *)

NotANumber == <<"text">>
IsNumber(v) == Len(v) = 2

Passed == [raised |-> "none"]
ValidationException(f) == [raised |-> "ValidationException", field |-> f]

required_fields == <<"symbol", "side", "quantity", "entry_price", "stop_loss", "take_profit">>
numeric_fields == <<"quantity", "entry_price", "stop_loss", "take_profit", "fees">>

Absent(data, f) == f \notin DOMAIN data \/ data[f] = None

\* the first field of the list fs that satisfies Bad, as a set (empty: none does)
FirstField(fs, Bad(_)) ==
    {fs[i] : i \in {j \in 1..Len(fs) : Bad(fs[j]) /\ \A k \in 1..(j - 1) : ~Bad(fs[k])}}

\* lines 136-162: the three prices are compared as floats
price_relationships(data) ==
    LET entry_price == ToFloat(data["entry_price"][1])
        stop_loss == ToFloat(data["stop_loss"][1])
        take_profit == ToFloat(data["take_profit"][1])
    IN  IF data["side"] = Some("buy")
        THEN IF DecLe(entry_price, stop_loss) THEN ValidationException("stop_loss")
             ELSE IF DecLe(take_profit, entry_price) THEN ValidationException("take_profit")
             ELSE Passed
        ELSE IF DecLe(stop_loss, entry_price) THEN ValidationException("stop_loss")
             ELSE IF DecLe(entry_price, take_profit) THEN ValidationException("take_profit")
             ELSE Passed

validate_trade_data(data) ==
    LET IsMissing(f) == Absent(data, f)
        IsUnparsable(f) == ~Absent(data, f) /\ ~IsNumber(data[f][1])
        missing == FirstField(required_fields, IsMissing)
        unparsable == FirstField(numeric_fields, IsUnparsable)
    IN  IF missing # {} THEN ValidationException(CHOOSE f \in missing : TRUE)
        ELSE IF unparsable # {} THEN ValidationException(CHOOSE f \in unparsable : TRUE)
        ELSE IF data["side"] \notin {Some("buy"), Some("sell")}
             THEN ValidationException("side")
        ELSE price_relationships(data)

----------------------------------------------------------------------------
(* models.py: the request models.  A TradeCreate or TradeUpdate reaches    *)
(* the service already built by pydantic: the symbol normalised, the       *)
(* field constraints checked.                                              *)

Upper(c) == IF c = "a" THEN "A" ELSE IF c = "b" THEN "B" ELSE c

RECURSIVE LStrip(_)
LStrip(s) == IF s # << >> /\ Head(s) = " " THEN LStrip(Tail(s)) ELSE s

RECURSIVE RStrip(_)
RStrip(s) == IF s # << >> /\ s[Len(s)] = " " THEN RStrip(SubSeq(s, 1, Len(s) - 1)) ELSE s

\* v.upper().strip()
normalize_symbol(v) == RStrip(LStrip([i \in 1..Len(v) |-> Upper(v[i])]))

MinSymbolLen == 1
MaxSymbolLen == 20
MaxLotSizeOnUpdate == 100

\* TradeBase / TradeCreate: Field constraints first, then the validators
TradeCreateAccepts(raw) ==
    /\ Len(raw.symbol) >= MinSymbolLen /\ Len(raw.symbol) <= MaxSymbolLen
    /\ DecLt(DecZero, raw.quantity)
    /\ DecLt(DecZero, raw.lot_size)
    /\ DecLt(DecZero, raw.entry_price)
    /\ DecLt(DecZero, raw.stop_loss)
    /\ DecLt(DecZero, raw.take_profit)
    /\ DecLe(DecZero, raw.fees)
    /\ raw.exit_price # None => DecLt(DecZero, raw.exit_price[1])

TradeCreate(raw) == [raw EXCEPT !.symbol = normalize_symbol(raw.symbol)]

\* TradeUpdate: every field optional
TradeUpdateAccepts(raw) ==
    /\ raw.symbol # None =>
          Len(raw.symbol[1]) >= MinSymbolLen /\ Len(raw.symbol[1]) <= MaxSymbolLen
    /\ raw.quantity # None => DecLt(DecZero, raw.quantity[1])
    /\ raw.lot_size # None =>
          DecLt(DecZero, raw.lot_size[1]) /\ DecLe(raw.lot_size[1], D(MaxLotSizeOnUpdate))
    /\ raw.entry_price # None => DecLt(DecZero, raw.entry_price[1])
    /\ raw.stop_loss # None => DecLt(DecZero, raw.stop_loss[1])
    /\ raw.take_profit # None => DecLt(DecZero, raw.take_profit[1])
    /\ raw.exit_price # None => DecLt(DecZero, raw.exit_price[1])
    /\ raw.fees # None => DecLe(DecZero, raw.fees[1])

TradeUpdate(raw) ==
    [raw EXCEPT !.symbol = IF raw.symbol = None THEN None
                           ELSE Some(normalize_symbol(raw.symbol[1]))]

\* trade_in.model_dump(): the dict validate_trade_data reads
model_dump(t) ==
    [symbol |-> Some(t.symbol), side |-> Some(t.side), quantity |-> Some(t.quantity),
     lot_size |-> Some(t.lot_size), entry_price |-> Some(t.entry_price),
     entry_time |-> Some(t.entry_time), stop_loss |-> Some(t.stop_loss),
     take_profit |-> Some(t.take_profit), fees |-> Some(t.fees), notes |-> t.notes,
     exit_price |-> t.exit_price, exit_time |-> t.exit_time]

Ok(v) == [raised |-> "none", value |-> v]
Raise(e) == [raised |-> e]

\* Python truth of an optional Decimal: None and 0 are false
Truthy(v) == v # None /\ v[1] # DecZero

\* Trade(TradeBase): the fields without a default, and the fields whose
\* type admits no None
TradeRequired == {"id", "symbol", "side", "quantity", "entry_price", "entry_time",
                  "stop_loss", "take_profit", "created_at", "updated_at"}
TradeOptional == {"notes", "exit_price", "exit_time", "pnl"}
TradeDefaults == [lot_size |-> D(1), fees |-> D(0), notes |-> None,
                  exit_price |-> None, exit_time |-> None, pnl |-> None]

----------------------------------------------------------------------------
(* The trades table.  A row has every column; stop_loss, take_profit,      *)
(* exit_price, exit_time, notes and pnl are nullable (None or Some).       *)
(* exit_reason and the checklist columns, which no operation of the        *)
(* service reads or writes, are left out.                                  *)

NullableColumns == {"stop_loss", "take_profit", "exit_price", "exit_time", "notes", "pnl"}

\* what a column holds when an INSERT does not name it
ColumnDefaults(id, now) ==
    [id |-> id, lot_size |-> D(1), stop_loss |-> None, take_profit |-> None,
     exit_price |-> None, exit_time |-> None, notes |-> None, pnl |-> None,
     created_at |-> now, updated_at |-> now]

Insert(id, now, given) ==
    LET d == ColumnDefaults(id, now)
    IN  [c \in DOMAIN d \cup DOMAIN given |->
            IF c \in DOMAIN given THEN given[c] ELSE d[c]]

WithRowAtFreeId(tbl, id, row) ==
    LET j == IF id \in DOMAIN tbl THEN id
             ELSE CHOOSE k \in 1..id :
                     k \notin DOMAIN tbl /\ \A m \in 1..(k - 1) : m \in DOMAIN tbl
    IN  [i \in DOMAIN tbl \cup {j} |-> IF i = j THEN row ELSE tbl[i]]

WithRow(tbl, id, row) == [i \in DOMAIN tbl \cup {id} |-> IF i = id THEN row ELSE tbl[i]]
WithoutRow(tbl, id) == [i \in DOMAIN tbl \ {id} |-> tbl[i]]

----------------------------------------------------------------------------
(* repository.py                                                           *)

\* the column list of the RETURNING and SELECT clauses
ReturnedColumns ==
    {"id", "symbol", "side", "quantity", "entry_price", "entry_time",
     "exit_price", "exit_time", "fees", "notes", "pnl", "created_at", "updated_at"}

Record(row) == [c \in ReturnedColumns |-> row[c]]

_record_to_trade_unvalidated(record) ==
    Ok([f \in DOMAIN record \cup DOMAIN TradeDefaults |->
           IF f \in DOMAIN record THEN record[f] ELSE TradeDefaults[f]])

\* Trade(**data): pydantic raises its ValidationError when a required field is
\* not among the keys, or a field that is no Optional holds None; a field
\* with a default that is not among the keys takes the default.  The numeric
\* columns arrive as Decimal, which Decimal(str(x)) leaves as it is.
_record_to_trade(record) ==
    LET keys == DOMAIN record
        Value(f) == IF f \in NullableColumns /\ f \notin TradeOptional
                    THEN record[f][1] ELSE record[f]
    IN  IF ~(TradeRequired \subseteq keys) THEN Raise("pydantic.ValidationError")
        ELSE IF \E f \in keys \cap (NullableColumns \ TradeOptional) : record[f] = None
             THEN Raise("pydantic.ValidationError")
        ELSE Ok([f \in keys \cup DOMAIN TradeDefaults |->
                    IF f \in keys THEN Value(f) ELSE TradeDefaults[f]])

\* TradeRepository.get_by_id: Ok(None), Ok(Some(trade)) or the exception
get_by_id(tbl, trade_id) ==
    IF trade_id \notin DOMAIN tbl THEN Ok(None)
    ELSE LET t == _record_to_trade(Record(tbl[trade_id]))
         IN  IF t.raised = "none" THEN Ok(Some(t.value)) ELSE t

\* TradeRepository.create: the INSERT, then the row read back as a Trade
repo_create(tbl, id, now, trade_in, pnl) ==
    LET row == Insert(id, now,
                   [symbol |-> trade_in.symbol,
                    side |-> trade_in.side,
                    quantity |-> ToFloat(trade_in.quantity),
                    entry_price |-> ToFloat(trade_in.entry_price),
                    entry_time |-> trade_in.entry_time,
                    exit_price |-> IF Truthy(trade_in.exit_price)
                                   THEN Some(ToFloat(trade_in.exit_price[1])) ELSE None,
                    exit_time |-> trade_in.exit_time,
                    fees |-> ToFloat(trade_in.fees),
                    notes |-> trade_in.notes,
                    pnl |-> IF Truthy(pnl) THEN Some(ToFloat(pnl[1])) ELSE None])
    IN  [trades |-> WithRow(tbl, id, row), wrote |-> TRUE,
         result |-> _record_to_trade(Record(row))]

\* the columns of field_mapping, and the value written for each
field_mapping == {"symbol", "side", "quantity", "entry_price", "entry_time",
                  "exit_price", "exit_time", "fees", "notes"}

UpdateValue(trade_in, f) ==
    IF f \in {"quantity", "entry_price", "exit_price", "fees"}
    THEN (IF f \in NullableColumns THEN Some(ToFloat(trade_in[f][1]))
          ELSE ToFloat(trade_in[f][1]))
    ELSE IF f \in NullableColumns THEN trade_in[f] ELSE trade_in[f][1]

\* TradeRepository.update
repo_update(tbl, trade_id, now, trade_in, pnl) ==
    LET current_trade == get_by_id(tbl, trade_id)
        old == tbl[trade_id]
        row == [c \in DOMAIN old |->
                   IF c \in field_mapping /\ trade_in[c] # None THEN UpdateValue(trade_in, c)
                   ELSE IF c = "pnl" THEN (IF Truthy(pnl) THEN Some(ToFloat(pnl[1])) ELSE None)
                   ELSE IF c = "updated_at" THEN now
                   ELSE old[c]]
    IN  IF current_trade.raised # "none"
        THEN [trades |-> tbl, wrote |-> FALSE, result |-> current_trade]
        ELSE IF current_trade.value = None
        THEN [trades |-> tbl, wrote |-> FALSE, result |-> Ok(None)]
        ELSE LET t == _record_to_trade(Record(row))
             IN  [trades |-> WithRow(tbl, trade_id, row), wrote |-> TRUE,
                  result |-> IF t.raised = "none" THEN Ok(Some(t.value)) ELSE t]

repo_delete_unreported(tbl, trade_id) ==
    [trades |-> WithoutRow(tbl, trade_id), wrote |-> FALSE, result |-> Ok(TRUE)]

\* TradeRepository.delete: "DELETE 1" when the row was there
repo_delete(tbl, trade_id) ==
    [trades |-> WithoutRow(tbl, trade_id), wrote |-> FALSE,
     result |-> Ok(trade_id \in DOMAIN tbl)]

\* ORDER BY entry_time DESC, id DESC: the ids of a set of rows in that order
RECURSIVE OrderedIds(_, _)
OrderedIds(tbl, ids) ==
    IF ids = {} THEN << >>
    ELSE LET top == CHOOSE i \in ids :
                        \A j \in ids \ {i} :
                            \/ tbl[i].entry_time > tbl[j].entry_time
                            \/ tbl[i].entry_time = tbl[j].entry_time /\ i > j
         IN  <<top>> \o OrderedIds(tbl, ids \ {top})

\* s.upper()
upper(s) == [i \in 1..Len(s) |-> Upper(s[i])]

\* Python truth of an optional string: None and "" are false
TruthyStr(v) == v # None /\ v[1] # << >>

\* TradeRepository.list.  With a symbol the query text reads
\* WHERE "symbol"='$1' ... LIMIT $2 OFFSET $3, the filter value a quoted
\* literal, and is sent with three arguments: the server cannot type the
\* parameter $1 that the text never uses and rejects the statement.  Without
\* one, the page of the ordered rows is read and each row made a Trade.
repo_list(tbl, symbol, limit, offset) ==
    IF TruthyStr(symbol) THEN Raise("asyncpg.IndeterminateDatatypeError")
    ELSE LET ordered == OrderedIds(tbl, DOMAIN tbl)
             last == IF offset + limit < Len(ordered) THEN offset + limit ELSE Len(ordered)
             page == SubSeq(ordered, offset + 1, last)
             made == [k \in 1..Len(page) |-> _record_to_trade(Record(tbl[page[k]]))]
             failed == {k \in 1..Len(page) : made[k].raised # "none"}
         IN  IF failed # {} THEN made[CHOOSE k \in failed : \A m \in failed : k <= m]
             ELSE Ok([k \in 1..Len(page) |-> made[k].value])

----------------------------------------------------------------------------
(* service.py                                                              *)

\* except ValidationException: raise; except Exception: raise TradeException
WrapTradeException(r) ==
    IF r.raised \in {"none", "ValidationException"} THEN r ELSE Raise("TradeException")

create_trade(tbl, id, now, trade_in) ==
    LET checked == validate_trade_data(model_dump(trade_in))
        pnl == _compute_pnl(trade_in.side, trade_in.quantity, trade_in.lot_size,
                            trade_in.entry_price, trade_in.exit_price, trade_in.fees)
        created == repo_create(tbl, id, now, trade_in, pnl)
    IN  IF checked.raised # "none"
        THEN [trades |-> tbl, wrote |-> FALSE, result |-> checked]
        ELSE [created EXCEPT !.result = WrapTradeException(created.result)]

get_trade(tbl, trade_id) ==
    IF trade_id <= 0 THEN ValidationException("trade_id")
    ELSE WrapTradeException(get_by_id(tbl, trade_id))

update_trade_unguarded(tbl, trade_id, now, trade_in) ==
    LET existing == get_by_id(tbl, trade_id)
    IN  IF existing.raised # "none"
        THEN [trades |-> tbl, wrote |-> FALSE, result |-> existing]
        ELSE IF existing.value = None
        THEN [trades |-> tbl, wrote |-> FALSE, result |-> Raise("AttributeError")]
        ELSE repo_update(tbl, trade_id, now, trade_in, trade_in.pnl)

update_trade(tbl, trade_id, now, trade_in) ==
    LET existing == get_by_id(tbl, trade_id)
        e == existing.value[1]
        Eff(f) == IF trade_in[f] # None THEN trade_in[f][1] ELSE e[f]
        exit_price_eff == IF trade_in.exit_price # None THEN trade_in.exit_price
                          ELSE e.exit_price
        pnl == IF trade_in.pnl # None THEN trade_in.pnl
               ELSE _compute_pnl(Eff("side"), Eff("quantity"), Eff("lot_size"),
                                 Eff("entry_price"), exit_price_eff, Eff("fees"))
    IN  IF existing.raised # "none"
        THEN [trades |-> tbl, wrote |-> FALSE, result |-> existing]
        ELSE IF existing.value = None
        THEN [trades |-> tbl, wrote |-> FALSE, result |-> Ok(None)]
        ELSE repo_update(tbl, trade_id, now, trade_in, pnl)

delete_trade(tbl, trade_id) == repo_delete(tbl, trade_id)

list_trades(tbl, symbol, limit, offset) ==
    LET symbol_norm == IF TruthyStr(symbol) THEN Some(upper(symbol[1])) ELSE None
    IN  repo_list(tbl, IF TruthyStr(symbol_norm) THEN Some(upper(symbol_norm[1])) ELSE None,
                  limit, offset)

----------------------------------------------------------------------------
(* exceptions.py, error_handlers.py, main.py: what the caller receives.    *)
(* A text is a sequence of strings, concatenation is \o.  The details of   *)
(* an error are a set of <<key, text>> pairs.                              *)

\* str(e): the message an exception carries, or a text fixed by its class
\* and field for the exceptions modelled without one
str(e) ==
    IF "message" \in DOMAIN e THEN e.message
    ELSE IF "field" \in DOMAIN e THEN <<e.raised, e.field>>
    ELSE <<e.raised>>

\* the error_code each TradingJournalException subclass passes to its base
error_code(e) ==
    CASE e.raised = "ValidationException" -> "VALIDATION_ERROR"
      [] e.raised = "TradeException" -> "TRADE_ERROR"
      [] e.raised = "DatabaseException" -> "DATABASE_ERROR"

TradingJournalExceptions == {"ValidationException", "TradeException", "DatabaseException"}

\* exc.details
details(e) ==
    IF "details" \in DOMAIN e THEN e.details
    ELSE IF "field" \in DOMAIN e THEN {<<"field", <<e.field>>>>}
    ELSE {}

HTTP_201_CREATED == 201
HTTP_200_OK == 200
HTTP_204_NO_CONTENT == 204
HTTP_400_BAD_REQUEST == 400
HTTP_404_NOT_FOUND == 404
HTTP_422_UNPROCESSABLE_ENTITY == 422
HTTP_500_INTERNAL_SERVER_ERROR == 500
HTTP_503_SERVICE_UNAVAILABLE == 503

HTTPException(status_code, detail) ==
    [raised |-> "HTTPException", status_code |-> status_code, message |-> detail]

create_error_response(message, code, status_code, dets) ==
    [status_code |-> status_code, code |-> code, message |-> message, details |-> dets]

status_mapping(code) ==
    CASE code = "VALIDATION_ERROR" -> HTTP_422_UNPROCESSABLE_ENTITY
      [] code = "TRADE_ERROR" -> HTTP_400_BAD_REQUEST
      [] code = "DATABASE_ERROR" -> HTTP_503_SERVICE_UNAVAILABLE
      [] OTHER -> HTTP_500_INTERNAL_SERVER_ERROR

trading_journal_exception_handler(exc) ==
    create_error_response(str(exc), error_code(exc), status_mapping(error_code(exc)),
                          details(exc))

http_exception_handler(exc) ==
    create_error_response(str(exc), "HTTP_ERROR", exc.status_code, {})

general_exception_handler(exc) ==
    create_error_response(<<"An unexpected error occurred. Please try again later.">>,
                          "INTERNAL_ERROR", HTTP_500_INTERNAL_SERVER_ERROR,
                          {<<"exception_type", <<exc.raised>>>>})

\* app.add_exception_handler: the handler of the exception's class
exception_handler(exc) ==
    IF exc.raised \in TradingJournalExceptions THEN trading_journal_exception_handler(exc)
    ELSE IF exc.raised = "HTTPException" THEN http_exception_handler(exc)
    ELSE general_exception_handler(exc)

Success(status_code, body) == [status_code |-> status_code, body |-> body]

----------------------------------------------------------------------------
(* trade_router.py: each endpoint, from the outcome of its service call    *)
(* to the response.                                                        *)

router_create_trade(r) ==
    IF r.raised = "none" THEN Success(HTTP_201_CREATED, r.value)
    ELSE exception_handler(HTTPException(HTTP_500_INTERNAL_SERVER_ERROR,
                                         <<"Failed to create trade: ">> \o str(r)))

\* no try: what the service raises reaches the handlers as it is
router_get_trade(r) ==
    IF r.raised # "none" THEN exception_handler(r)
    ELSE IF r.value = None
    THEN exception_handler(HTTPException(HTTP_404_NOT_FOUND, <<"Trade not found">>))
    ELSE Success(HTTP_200_OK, r.value[1])

router_update_trade(r) ==
    IF r.raised # "none"
    THEN exception_handler(HTTPException(HTTP_500_INTERNAL_SERVER_ERROR,
                                         <<"Failed to update trade: ">> \o str(r)))
    ELSE IF r.value = None
    THEN exception_handler(HTTPException(HTTP_404_NOT_FOUND, <<"Trade not found">>))
    ELSE Success(HTTP_200_OK, r.value[1])

router_delete_trade(r) ==
    IF r.raised # "none"
    THEN exception_handler(HTTPException(HTTP_500_INTERNAL_SERVER_ERROR,
                                         <<"Failed to delete trade: ">> \o str(r)))
    ELSE IF ~r.value
    THEN exception_handler(HTTPException(HTTP_404_NOT_FOUND, <<"Trade not found">>))
    ELSE Success(HTTP_204_NO_CONTENT, None)

\* Query(50, ge=1, le=500) and Query(0, ge=0)
MinLimit == 1
MaxLimit == 500
ListAccepts(limit, offset) == limit >= MinLimit /\ limit <= MaxLimit /\ offset >= 0

router_list_trades(r, symbol, limit, offset) ==
    IF r.raised # "none"
    THEN exception_handler(HTTPException(HTTP_500_INTERNAL_SERVER_ERROR,
                                         <<"Failed to retrieve trades: ">> \o str(r)))
    ELSE LET total == Len(r.value)
         IN  Success(HTTP_200_OK,
                     [trades |-> r.value,
                      pagination |-> [total |-> total, page |-> (offset \div limit) + 1,
                                      size |-> limit,
                                      pages |-> (total + limit - 1) \div limit],
                      filters |-> [symbol |-> symbol, limit |-> limit, offset |-> offset]])

----------------------------------------------------------------------------
(* Inputs of the pure-function specifications.                             *)

Sides == {"buy", "sell"}
PnlQuantities == {D(1), D(2), D(3)}
PnlLotSizes == {D(1), D(100)}
PnlPrices == {D(1), D(150), D(155), Big(0), Big(1)}
PnlFees == {D(0), D(1), D(2)}

Idle == [op |-> "none"]

\* the update requests being served: per request its position in
\* update_trade, its arguments and locals; the table when the first of them
\* arrived, whether the two overlapped, and the order in which they ended;
\* gone: the request's trade was deleted while the request was being served
Procs == {1, 2}
NotStarted ==
    [pc |-> "idle", id |-> 0, trade_in |-> << >>, pnl |-> None,
     result |-> [raised |-> "pending"], at |-> 0, gone |-> FALSE]
NoneInFlight ==
    [procs |-> [p \in Procs |-> NotStarted], base |-> << >>, overlapped |-> FALSE,
     order |-> << >>, deleted |-> {}]

\* app.core.db.  A pool is named by the number of the create_pool call that
\* made it.  frame is the init_db_pool call: its position, its argument, the
\* loop variable, and what it has done so far (history: the create_pool
\* calls made, the errors they raised, the sleeps taken)
NoFrame ==
    [pc |-> "idle", max_retries |-> 0, attempt |-> 0, attempts |-> 0,
     errors |-> << >>, sleeps |-> 0, had_pool |-> None, outcome |-> "none",
     raised |-> None]

\* the lifespan of the application: its phase, the setting
\* run_migrations_on_startup, what each migration file came to, and the
\* exception the startup block caught
NotRunning ==
    [phase |-> "down", run_migrations_on_startup |-> FALSE, results |-> << >>,
     caught |-> None]

NoDb ==
    [_pool |-> None, created |-> 0, frame |-> NoFrame, ready |-> FALSE,
     last |-> [op |-> "none"], lifespan |-> NotRunning]

max_size == 10
default_max_retries == 5

\* init_db_pool up to its loop: return at once when a pool exists
init_db_pool(d, max_retries) ==
    IF d._pool # None
    THEN [d EXCEPT !.frame = [NoFrame EXCEPT !.max_retries = max_retries,
                                             !.had_pool = d._pool,
                                             !.outcome = "returned"]]
    ELSE [d EXCEPT !.frame = [NoFrame EXCEPT !.pc = "for",
                                             !.max_retries = max_retries,
                                             !.outcome = "pending"]]

\* a variant that sleeps after every failed attempt, the last one included
init_db_pool_attempt_sleeping(d, created_pool) ==
    LET f == d.frame IN
    IF f.attempt >= f.max_retries
    THEN [d EXCEPT !.frame.pc = "idle", !.frame.outcome = "returned"]
    ELSE IF created_pool = "ok"
    THEN [d EXCEPT !._pool = Some(d.created + 1),
                   !.created = d.created + 1,
                   !.frame.pc = "idle",
                   !.frame.attempts = f.attempts + 1,
                   !.frame.outcome = "returned"]
    ELSE [d EXCEPT !.frame.pc = "sleep",
                   !.frame.attempts = f.attempts + 1,
                   !.frame.errors = Append(f.errors, created_pool)]

\* one turn of `for attempt in range(max_retries)`: the loop ends when the
\* range is exhausted; otherwise create_pool either gives a pool, which is
\* stored and returned from, or raises, and then the call sleeps when
\* attempt < max_retries - 1 and re-raises otherwise
init_db_pool_attempt(d, created_pool) ==
    LET f == d.frame IN
    IF f.attempt >= f.max_retries
    THEN [d EXCEPT !.frame.pc = "idle", !.frame.outcome = "returned"]
    ELSE IF created_pool = "ok"
    THEN [d EXCEPT !._pool = Some(d.created + 1),
                   !.created = d.created + 1,
                   !.frame.pc = "idle",
                   !.frame.attempts = f.attempts + 1,
                   !.frame.outcome = "returned"]
    ELSE IF f.attempt < f.max_retries - 1
    THEN [d EXCEPT !.frame.pc = "sleep",
                   !.frame.attempts = f.attempts + 1,
                   !.frame.errors = Append(f.errors, created_pool)]
    ELSE [d EXCEPT !.frame.pc = "idle",
                   !.frame.attempts = f.attempts + 1,
                   !.frame.errors = Append(f.errors, created_pool),
                   !.frame.outcome = "raised",
                   !.frame.raised = Some(created_pool)]

\* asyncio.sleep(retry_delay) is over: the next turn of the loop
init_db_pool_sleep(d) ==
    [d EXCEPT !.frame.pc = "for",
              !.frame.sleeps = d.frame.sleeps + 1,
              !.frame.attempt = d.frame.attempt + 1]

\* a variant that closes the pool and keeps the reference to it
close_db_pool_keeping(d) == d

close_db_pool(d) ==
    IF d._pool # None THEN [d EXCEPT !._pool = None] ELSE d

get_pool(d) ==
    IF d._pool = None
    THEN [raised |-> "RuntimeError",
          message |-> <<"Database pool is not initialized">>]
    ELSE Ok(d._pool[1])

\* the requests in flight, counted by what their handler does with the pool
\* and by where they are, and the connections the pool has handed out
Endpoints ==
    {"create_trade", "list_trades", "get_trade", "update_trade", "delete_trade",
     "health_check", "detailed_health_check", "schema_status", "system_status"}

\* endpoints that declare the connection dependency
takes_connection(endpoint) == endpoint \notin {"health_check", "system_status"}

\* endpoints that call db_initializer.get_schema_status()
calls_get_schema_status(endpoint) ==
    endpoint \in {"detailed_health_check", "schema_status"}

Handler(endpoint) ==
    IF ~takes_connection(endpoint) THEN "plain"
    ELSE IF calls_get_schema_status(endpoint) THEN "schema" ELSE "trade"

Places ==
    {<<"plain", "handling">>,
     <<"trade", "waiting">>, <<"trade", "handling">>,
     <<"schema", "waiting">>, <<"schema", "handling">>,
     <<"schema", "waiting_second">>, <<"schema", "handling_second">>,
     <<"schema", "responding">>}

NoRequests == [at |-> [p \in Places |-> 0], out |-> 0]

Init ==
    /\ trades = << >>
    /\ next_id = 1
    /\ clock = 1
    /\ supplied = << >>
    /\ call = Idle
    /\ inflight = NoneInFlight
    /\ db = NoDb
    /\ requests = NoRequests

ComputePnl ==
    \E side \in Sides, q \in PnlQuantities, l \in PnlLotSizes, e \in PnlPrices,
       x \in {None} \cup {Some(p) : p \in PnlPrices}, f \in PnlFees :
        /\ call' = [op |-> "_compute_pnl", side |-> side, quantity |-> q,
                    lot_size |-> l, entry_price |-> e, exit_price |-> x, fees |-> f,
                    result |-> _compute_pnl(side, q, l, e, x, f)]
        /\ UNCHANGED <<trades, next_id, clock, supplied, inflight, db, requests>>

NextPnl == ComputePnl

SpecPnl == Init /\ [][NextPnl]_vars

ValSides == {None, Some("buy"), Some("sell"), Some("hold")}
ValEntryInputs == {None, Some(NotANumber), Some(D(2)), Some(Big(1))}
ValPriceInputs ==
    {None, Some(NotANumber), Some(D(1)), Some(D(3)), Some(Big(0)), Some(Big(3))}
ValKeys == {"symbol", "side", "quantity", "entry_price", "stop_loss", "take_profit", "fees"}
ValShapes ==
    { [keys |-> ValKeys, quantity |-> Some(D(1)), fees |-> Some(D(0))],
      [keys |-> ValKeys, quantity |-> Some(NotANumber), fees |-> None],
      [keys |-> ValKeys \ {"symbol"}, quantity |-> Some(D(1)), fees |-> Some(D(0))],
      [keys |-> ValKeys \ {"fees"}, quantity |-> Some(D(1)), fees |-> None] }

ValidateTradeData ==
    \E side \in ValSides, e \in ValEntryInputs, sl \in ValPriceInputs,
       tp \in ValPriceInputs, shape \in ValShapes :
        LET full == [symbol |-> Some(<<"A">>), side |-> side,
                     quantity |-> shape.quantity,
                     entry_price |-> e, stop_loss |-> sl, take_profit |-> tp,
                     fees |-> shape.fees]
            data == [k \in shape.keys |-> full[k]]
        IN  /\ call' = [op |-> "validate_trade_data", data |-> data,
                        result |-> validate_trade_data(data)]
            /\ UNCHANGED <<trades, next_id, clock, supplied, inflight, db, requests>>

NextValidate == ValidateTradeData

SpecValidate == Init /\ [][NextValidate]_vars

----------------------------------------------------------------------------
(* test_data_generator.py: empties the table, then inserts closed trades   *)
(* with stop loss, take profit and lot size, the exit at one of the two.   *)

GeneratedTrade(side, hit_take_profit) ==
    LET quantity == D(1)
        lot_size == D(100)
        entry_price == D(2)
        stop_loss == IF side = "buy" THEN D(1) ELSE D(3)
        take_profit == IF side = "buy" THEN D(3) ELSE D(1)
        exit_price == IF hit_take_profit THEN take_profit ELSE stop_loss
        fees == D(1)
        gross == IF side = "buy"
                 THEN DecMul(DecMul(DecSub(exit_price, entry_price), quantity), lot_size)
                 ELSE DecMul(DecMul(DecSub(entry_price, exit_price), quantity), lot_size)
    IN  [symbol |-> <<"A">>, side |-> side, quantity |-> quantity, lot_size |-> lot_size,
         entry_price |-> entry_price, entry_time |-> 1,
         stop_loss |-> Some(stop_loss), take_profit |-> Some(take_profit),
         exit_price |-> Some(exit_price), exit_time |-> Some(5), fees |-> fees,
         notes |-> Some("generated"), pnl |-> Some(DecSub(gross, fees))]

GeneratedTrades == {GeneratedTrade("buy", TRUE), GeneratedTrade("sell", FALSE)}

----------------------------------------------------------------------------
(* The service as a state machine: one action per operation.               *)

MaxTrades == 2
MaxClock == 3

TradeIds == 0..MaxTrades

\* stop loss and take profit in order for a buy, in order for a sell, and
\* with the stop loss at the entry price
StopsAndTargets == {<<D(1), D(3)>>, <<D(3), D(1)>>, <<D(2), D(3)>>}
\* lot size and fees: a buy from 2 to 3 then yields 0 or 1
LotsAndFees == {<<D(1), D(1)>>, <<D(2), D(1)>>}
\* open, closed, and an exit price without an exit time
Exits == {<<None, None>>, <<Some(D(3)), Some(5)>>, <<Some(D(3)), None>>}

CreateRequests ==
    {[symbol |-> <<"a">>, side |-> side, quantity |-> D(1), lot_size |-> lf[1],
      entry_price |-> D(2), entry_time |-> 1, stop_loss |-> st[1], take_profit |-> st[2],
      fees |-> lf[2], notes |-> None, exit_price |-> x[1], exit_time |-> x[2]] :
        side \in Sides, st \in StopsAndTargets, lf \in LotsAndFees, x \in Exits}

\* a symbol of blanks only, and one with a blank after it
PaddedSymbols == {<<" ">>, <<"b", " ">>}
PaddedCreateRequests ==
    {[symbol |-> sym, side |-> "buy", quantity |-> D(1), lot_size |-> D(1),
      entry_price |-> D(2), entry_time |-> 2, stop_loss |-> D(1), take_profit |-> D(3),
      fees |-> D(1), notes |-> None, exit_price |-> None, exit_time |-> None] :
        sym \in PaddedSymbols}

ListSymbols == {None, Some(<< >>), Some(<<"a">>), Some(<<"a", " ">>)}
ListLimits == {0, 1, 2}
ListOffsets == {0, 1}

NoChange ==
    [symbol |-> None, side |-> None, quantity |-> None, lot_size |-> None,
     entry_price |-> None, entry_time |-> None, stop_loss |-> None, take_profit |-> None,
     exit_price |-> None, exit_time |-> None, fees |-> None, notes |-> None, pnl |-> None]

UpdateRequests ==
    {[NoChange EXCEPT !.notes = Some("n2")], [NoChange EXCEPT !.side = Some("sell")]}
    \cup {[NoChange EXCEPT !.exit_price = x, !.lot_size = l, !.pnl = p] :
            x \in {None, Some(D(4))}, l \in {None, Some(D(2))},
            p \in {None, Some(D(0)), Some(D(7))}}

\* the values that enter the PnL formula
PricingFields == {"side", "quantity", "lot_size", "entry_price", "exit_price", "fees"}
Pricing(t) == [f \in PricingFields |-> t[f]]
Merged(old, trade_in) ==
    [f \in PricingFields |->
        IF trade_in[f] = None THEN old[f]
        ELSE IF f = "exit_price" THEN trade_in[f] ELSE trade_in[f][1]]

CreateTrade ==
    \E raw \in CreateRequests \cup PaddedCreateRequests :
        /\ TradeCreateAccepts(raw)
        /\ next_id <= MaxTrades
        /\ LET trade_in == TradeCreate(raw)
               r == create_trade(trades, next_id, clock, trade_in)
           IN  /\ trades' = r.trades
               /\ next_id' = IF r.wrote THEN next_id + 1 ELSE next_id
               /\ clock' = IF r.wrote THEN clock + 1 ELSE clock
               /\ supplied' = IF r.wrote THEN WithRow(supplied, next_id, Pricing(trade_in))
                              ELSE supplied
               /\ call' = [op |-> "create_trade", trade_in |-> trade_in, before |-> trades,
                           id |-> IF r.wrote THEN next_id ELSE 0, result |-> r.result,
                           response |-> router_create_trade(r.result)]
        /\ UNCHANGED <<inflight, db, requests>>

GetTrade ==
    \E trade_id \in TradeIds :
        /\ call' = [op |-> "get_trade", id |-> trade_id, before |-> trades,
                    result |-> get_trade(trades, trade_id),
                    response |-> router_get_trade(get_trade(trades, trade_id))]
        /\ UNCHANGED <<trades, next_id, clock, supplied, inflight, db, requests>>

UpdateTrade ==
    \E trade_id \in TradeIds, raw \in UpdateRequests :
        /\ TradeUpdateAccepts(raw)
        /\ clock <= MaxClock
        /\ LET trade_in == TradeUpdate(raw)
               r == update_trade(trades, trade_id, clock, trade_in)
           IN  /\ trades' = r.trades
               /\ clock' = IF r.wrote THEN clock + 1 ELSE clock
               /\ supplied' = IF r.wrote
                              THEN WithRow(supplied, trade_id,
                                           Merged(supplied[trade_id], trade_in))
                              ELSE supplied
               /\ call' = [op |-> "update_trade", id |-> trade_id, trade_in |-> trade_in,
                           before |-> trades, result |-> r.result,
                           response |-> router_update_trade(r.result),
                           asked |-> IF trade_id \in DOMAIN supplied
                                     THEN Some(Merged(supplied[trade_id], trade_in))
                                     ELSE None]
        /\ UNCHANGED <<next_id, inflight, db, requests>>

DeleteTrade ==
    \E trade_id \in TradeIds :
        LET r == delete_trade(trades, trade_id)
        IN  /\ trades' = r.trades
            /\ supplied' = WithoutRow(supplied, trade_id)
            /\ call' = [op |-> "delete_trade", id |-> trade_id, before |-> trades,
                        result |-> r.result, response |-> router_delete_trade(r.result)]
            /\ UNCHANGED <<next_id, clock, inflight, db, requests>>

ListTrades ==
    \E symbol \in ListSymbols, limit \in ListLimits, offset \in ListOffsets :
        /\ ListAccepts(limit, offset)
        /\ LET r == list_trades(trades, symbol, limit, offset)
           IN  call' = [op |-> "list_trades", symbol |-> symbol, limit |-> limit,
                        offset |-> offset, before |-> trades, result |-> r,
                        response |-> router_list_trades(r, symbol, limit, offset)]
        /\ UNCHANGED <<trades, next_id, clock, supplied, inflight, db, requests>>

GenerateTestData ==
    \E n \in 0..(MaxTrades + 1 - next_id) :
        \E rows \in [next_id..(next_id + n - 1) -> GeneratedTrades] :
            /\ trades' = [i \in DOMAIN rows |-> Insert(i, clock + (i - next_id), rows[i])]
            /\ supplied' = [i \in DOMAIN rows |-> Pricing(rows[i])]
            /\ next_id' = next_id + n
            /\ clock' = clock + n
            /\ call' = [op |-> "create_test_trades", before |-> trades]
            /\ UNCHANGED <<inflight, db, requests>>

Next ==
    \/ CreateTrade
    \/ GetTrade
    \/ UpdateTrade
    \/ DeleteTrade
    \/ ListTrades
    \/ GenerateTestData

Spec == Init /\ [][Next]_vars

----------------------------------------------------------------------------
(* update_trade statement by statement.  Each request has its own          *)
(* connection (deps.py), every statement commits on its own, and the       *)
(* requests interleave at the awaits: the read in update_trade, the read   *)
(* in TradeRepository.update, and the UPDATE.                              *)

\* a variant that does not check that the trade was found
update_trade_existing_unguarded(tbl, trade_id, trade_in) ==
    LET existing == get_by_id(tbl, trade_id)
    IN  IF existing.raised # "none" THEN [done |-> TRUE, result |-> existing, pnl |-> None]
        ELSE IF existing.value = None
        THEN [done |-> TRUE, result |-> Raise("AttributeError"), pnl |-> None]
        ELSE [done |-> FALSE, result |-> Ok(None), pnl |-> trade_in.pnl]

\* service.update_trade up to the call of repo.update: the read of the
\* existing trade and the PnL computed from it
update_trade_existing(tbl, trade_id, trade_in) ==
    LET existing == get_by_id(tbl, trade_id)
        e == existing.value[1]
        Eff(f) == IF trade_in[f] # None THEN trade_in[f][1] ELSE e[f]
        exit_price_eff == IF trade_in.exit_price # None THEN trade_in.exit_price
                          ELSE e.exit_price
    IN  IF existing.raised # "none" THEN [done |-> TRUE, result |-> existing, pnl |-> None]
        ELSE IF existing.value = None THEN [done |-> TRUE, result |-> Ok(None), pnl |-> None]
        ELSE [done |-> FALSE, result |-> Ok(None),
              pnl |-> IF trade_in.pnl # None THEN trade_in.pnl
                      ELSE _compute_pnl(Eff("side"), Eff("quantity"), Eff("lot_size"),
                                        Eff("entry_price"), exit_price_eff, Eff("fees"))]

\* TradeRepository.update: the check that the trade exists
repo_update_current(tbl, trade_id) ==
    LET current_trade == get_by_id(tbl, trade_id)
    IN  IF current_trade.raised # "none" THEN [done |-> TRUE, result |-> current_trade]
        ELSE IF current_trade.value = None THEN [done |-> TRUE, result |-> Ok(None)]
        ELSE [done |-> FALSE, result |-> Ok(None)]

\* a variant whose UPDATE sets every mapped column, null values included
repo_update_execute_nulling(tbl, trade_id, now, trade_in, pnl) ==
    IF trade_id \notin DOMAIN tbl THEN [trades |-> tbl, wrote |-> FALSE, result |-> Ok(None)]
    ELSE LET old == tbl[trade_id]
             row == [c \in DOMAIN old |->
                        IF c \in field_mapping
                        THEN (IF trade_in[c] # None THEN UpdateValue(trade_in, c) ELSE None)
                        ELSE IF c = "pnl"
                        THEN (IF Truthy(pnl) THEN Some(ToFloat(pnl[1])) ELSE None)
                        ELSE IF c = "updated_at" THEN now
                        ELSE old[c]]
         IN  [trades |-> WithRow(tbl, trade_id, row), wrote |-> TRUE, result |-> Ok(None)]

\* TradeRepository.update: UPDATE ... WHERE id = ... RETURNING, which finds no
\* row when the trade was deleted in between
repo_update_execute(tbl, trade_id, now, trade_in, pnl) ==
    IF trade_id \notin DOMAIN tbl THEN [trades |-> tbl, wrote |-> FALSE, result |-> Ok(None)]
    ELSE LET old == tbl[trade_id]
             row == [c \in DOMAIN old |->
                        IF c \in field_mapping /\ trade_in[c] # None
                        THEN UpdateValue(trade_in, c)
                        ELSE IF c = "pnl"
                        THEN (IF Truthy(pnl) THEN Some(ToFloat(pnl[1])) ELSE None)
                        ELSE IF c = "updated_at" THEN now
                        ELSE old[c]]
             t == _record_to_trade(Record(row))
         IN  [trades |-> WithRow(tbl, trade_id, row), wrote |-> TRUE,
              result |-> IF t.raised = "none" THEN Ok(Some(t.value)) ELSE t]

ConcurrentRequests ==
    {[NoChange EXCEPT !.exit_price = Some(D(4))], [NoChange EXCEPT !.side = Some("sell")],
     [NoChange EXCEPT !.notes = Some("n2")]}

Quiet == \A p \in Procs : inflight.procs[p].pc = "idle"

\* trades are created while no update is being served
SetUp == Quiet /\ CreateTrade

Ended(p, r, fl) ==
    [fl EXCEPT !.procs[p].pc = "done", !.procs[p].result = r, !.procs[p].at = clock,
               !.order = Append(@, p)]

\* a request arrives; a second one is for the trade of the first
BeginUpdate(p) ==
    \E trade_id \in 1..MaxTrades, raw \in ConcurrentRequests :
        /\ inflight.procs[p].pc = "idle"
        /\ TradeUpdateAccepts(raw)
        /\ \A q \in Procs \ {p} :
               inflight.procs[q].pc # "idle" => inflight.procs[q].id = trade_id
        /\ inflight' =
              [inflight EXCEPT !.procs[p].pc = "existing",
                               !.procs[p].id = trade_id,
                               !.procs[p].trade_in = TradeUpdate(raw),
                               !.base = IF Quiet THEN trades ELSE @,
                               !.overlapped =
                                   \E q \in Procs \ {p} :
                                       inflight.procs[q].pc \notin {"idle", "done"}]
        /\ UNCHANGED <<trades, next_id, clock, supplied, call, db, requests>>

\* the request's next statement
UpdateStep(p) ==
    LET me == inflight.procs[p]
    IN  /\ me.pc \in {"existing", "current_trade", "execute"}
        /\ IF me.pc = "existing"
           THEN LET r == update_trade_existing(trades, me.id, me.trade_in)
                IN  /\ inflight' = IF r.done THEN Ended(p, r.result, inflight)
                                   ELSE [inflight EXCEPT !.procs[p].pc = "current_trade",
                                                         !.procs[p].pnl = r.pnl]
                    /\ UNCHANGED <<trades, clock>>
           ELSE IF me.pc = "current_trade"
           THEN LET r == repo_update_current(trades, me.id)
                IN  /\ inflight' = IF r.done THEN Ended(p, r.result, inflight)
                                   ELSE [inflight EXCEPT !.procs[p].pc = "execute"]
                    /\ UNCHANGED <<trades, clock>>
           ELSE LET r == repo_update_execute(trades, me.id, clock, me.trade_in, me.pnl)
                IN  /\ inflight' = Ended(p, r.result, inflight)
                    /\ trades' = r.trades
                    /\ clock' = IF r.wrote THEN clock + 1 ELSE clock
        /\ UNCHANGED <<next_id, supplied, call, db, requests>>

NextConcurrent ==
    \/ SetUp
    \/ \E p \in Procs : BeginUpdate(p)
    \/ \E p \in Procs : UpdateStep(p)

SpecConcurrent == Init /\ [][NextConcurrent]_vars

\* a delete_trade request for the trade of an update that is being served
DeleteDuring ==
    \E trade_id \in 1..MaxTrades :
        /\ \E p \in Procs : /\ inflight.procs[p].pc \in {"existing", "current_trade", "execute"}
                            /\ inflight.procs[p].id = trade_id
        /\ LET r == delete_trade(trades, trade_id)
               removed == r.result.raised = "none" /\ r.result.value
           IN  /\ trades' = r.trades
               /\ inflight' =
                     [inflight EXCEPT
                         !.deleted = IF removed THEN @ \cup {trade_id} ELSE @,
                         !.procs = [p \in Procs |->
                                       IF /\ removed
                                          /\ @[p].id = trade_id
                                          /\ @[p].pc \in {"existing", "current_trade", "execute"}
                                       THEN [@[p] EXCEPT !.gone = TRUE]
                                       ELSE @[p]]]
        /\ UNCHANGED <<next_id, clock, supplied, call, db, requests>>

NextConcurrentDelete ==
    \/ SetUp
    \/ \E p \in Procs : BeginUpdate(p)
    \/ \E p \in Procs : UpdateStep(p)
    \/ DeleteDuring

SpecConcurrentDelete == Init /\ [][NextConcurrentDelete]_vars

----------------------------------------------------------------------------
(* A request during which the storage fails, or something else raises:     *)
(* either when the connection is acquired for the request (deps.py, db.py  *)
(* get_connection, before the endpoint runs) or at the operation's first   *)
(* statement.  A failed statement changes nothing in the table.            *)

\* TradeException(message=..., details={"operation": ..., "error": str(e)})
TradeException(message, dets) ==
    [raised |-> "TradeException", message |-> message, details |-> dets]

\* create_trade when repo.create raises exc
create_trade_failing(trade_in, exc) ==
    LET checked == validate_trade_data(model_dump(trade_in))
    IN  IF checked.raised # "none" THEN checked
        ELSE TradeException(<<"Failed to create trade: ">> \o str(exc),
                            {<<"operation", <<"create_trade">>>>, <<"error", str(exc)>>})

\* get_trade when repo.get_by_id raises exc
get_trade_failing(trade_id, exc) ==
    IF trade_id <= 0 THEN ValidationException("trade_id")
    ELSE TradeException(<<"Failed to retrieve trade: ">> \o str(exc),
                        {<<"trade_id", <<ToString(trade_id)>>>>,
                         <<"operation", <<"get_trade">>>>, <<"error", str(exc)>>})

\* list_trades, update_trade and delete_trade have no try: exc leaves them
list_trades_failing(exc) == exc
update_trade_failing(exc) == exc
delete_trade_failing(exc) == exc

Operations == {"create_trade", "get_trade", "list_trades", "update_trade", "delete_trade"}

\* the response to a request whose operation met exc at the point `at`
failing_response(operation, at, exc, trade_id, trade_in) ==
    IF at = "acquire" THEN exception_handler(exc)
    ELSE CASE operation = "create_trade" ->
                  router_create_trade(create_trade_failing(trade_in, exc))
           [] operation = "get_trade" -> router_get_trade(get_trade_failing(trade_id, exc))
           [] operation = "list_trades" ->
                  router_list_trades(list_trades_failing(exc), None, MinLimit, 0)
           [] operation = "update_trade" -> router_update_trade(update_trade_failing(exc))
           [] operation = "delete_trade" -> router_delete_trade(delete_trade_failing(exc))

\* a query the server fails, a lost connection, and an error of no kind
\* the code names
StorageFailures == {"asyncpg.PostgresError", "asyncpg.InterfaceError"}
FailureClasses == StorageFailures \cup {"RuntimeError"}
FailureMessages == {"m1", "m2"}
FailurePoints == {"acquire", "statement"}

Failure(class, m) == [raised |-> class, message |-> <<m>>]

Failing(operation, at, exc, trade_id, trade_in) ==
    /\ call' = [op |-> "failing", operation |-> operation, at |-> at, exc |-> exc,
                id |-> trade_id, trade_in |-> trade_in, attempts |-> 1, before |-> trades,
                response |-> failing_response(operation, at, exc, trade_id, trade_in)]
    /\ UNCHANGED <<trades, next_id, clock, supplied, inflight, db, requests>>

FailCreate ==
    \E raw \in PaddedCreateRequests, at \in FailurePoints, class \in FailureClasses,
       m \in FailureMessages :
        /\ TradeCreateAccepts(raw)
        /\ validate_trade_data(model_dump(TradeCreate(raw))).raised = "none"
        /\ Failing("create_trade", at, Failure(class, m), 0, TradeCreate(raw))

FailGet ==
    \E trade_id \in 1..MaxTrades, at \in FailurePoints, class \in FailureClasses,
       m \in FailureMessages :
        Failing("get_trade", at, Failure(class, m), trade_id, NoChange)

FailList ==
    \E at \in FailurePoints, class \in FailureClasses, m \in FailureMessages :
        Failing("list_trades", at, Failure(class, m), 0, NoChange)

FailUpdate ==
    \E trade_id \in TradeIds, raw \in ConcurrentRequests, at \in FailurePoints,
       class \in FailureClasses, m \in FailureMessages :
        /\ TradeUpdateAccepts(raw)
        /\ Failing("update_trade", at, Failure(class, m), trade_id, TradeUpdate(raw))

FailDelete ==
    \E trade_id \in TradeIds, at \in FailurePoints, class \in FailureClasses,
       m \in FailureMessages :
        Failing("delete_trade", at, Failure(class, m), trade_id, NoChange)

NextFailing ==
    \/ FailCreate
    \/ FailGet
    \/ FailList
    \/ FailUpdate
    \/ FailDelete

SpecFailing == Init /\ [][NextFailing]_vars

----------------------------------------------------------------------------
(* The connection pool's life: init_db_pool, statement by statement (the   *)
(* call gives up control at create_pool and at sleep), close_db_pool and   *)
(* get_pool.                                                               *)

MaxPools == 2
RetryCounts == {0, 1, 2, 3}
Errors == {"ConnectionRefusedError", "TimeoutError"}

Others == <<trades, next_id, clock, supplied, call, inflight, requests>>

InitDbPool ==
    /\ db.frame.pc = "idle"
    /\ db.created < MaxPools
    /\ \E max_retries \in RetryCounts :
        db' = [init_db_pool(db, max_retries) EXCEPT !.last = [op |-> "init_db_pool"]]
    /\ UNCHANGED Others

\* ready: an init_db_pool call has succeeded since the last close_db_pool
CreatePool ==
    /\ db.frame.pc = "for"
    /\ \E created_pool \in {"ok"} \cup Errors :
        LET d == init_db_pool_attempt(db, created_pool) IN
        db' = [d EXCEPT !.last = [op |-> "init_db_pool"],
                        !.ready = IF created_pool = "ok"
                                     /\ d.frame.attempts > db.frame.attempts
                                  THEN TRUE ELSE db.ready]
    /\ UNCHANGED Others

RetrySleep ==
    /\ db.frame.pc = "sleep"
    /\ db' = [init_db_pool_sleep(db) EXCEPT !.last = [op |-> "init_db_pool"]]
    /\ UNCHANGED Others

CloseDbPool ==
    /\ db' = [close_db_pool(db) EXCEPT !.last = [op |-> "close_db_pool",
                                                 had_pool |-> db._pool],
                                       !.ready = FALSE]
    /\ UNCHANGED Others

GetPool ==
    /\ db' = [db EXCEPT !.last = [op |-> "get_pool", result |-> get_pool(db)]]
    /\ UNCHANGED Others

NextPool ==
    \/ InitDbPool
    \/ CreatePool
    \/ RetrySleep
    \/ CloseDbPool
    \/ GetPool

SpecPool == Init /\ [][NextPool]_vars

\* the event loop runs every task that is ready: a create_pool call comes
\* back (with a pool or an error) and a sleep ends
SpecPoolFair == SpecPool /\ WF_vars(CreatePool) /\ WF_vars(RetrySleep)

----------------------------------------------------------------------------
(* The lifespan of the application: startup (init_db_pool with its         *)
(* defaults, then run_migrations when the setting asks for it), serving,   *)
(* shutdown.                                                               *)

migration_files ==
    <<"001_create_trade.sql", "002_add_stop_loss_take_profit.sql",
      "003_add_exit_reason.sql", "004_add_checklist_fields.sql",
      "005_add_lot_size.sql">>

\* what a migration file can be like when its turn comes
MigrationFiles == {"missing", "empty", "valid", "unreadable", "rejected"}

_apply_migration(file) ==
    IF file = "missing" THEN Ok("skipped")
    ELSE IF file = "unreadable" THEN [raised |-> "OSError"]
    ELSE IF file = "empty" THEN Ok("skipped")
    ELSE IF file = "rejected" THEN [raised |-> "PostgresError"]
    ELSE Ok("applied")

LifespanStartup ==
    /\ db.lifespan.phase = "down"
    /\ db.frame.pc = "idle"
    /\ \E setting \in BOOLEAN :
        db' = [init_db_pool(db, default_max_retries)
                  EXCEPT !.last = [op |-> "init_db_pool"],
                         !.lifespan = [NotRunning EXCEPT
                                          !.phase = "init_db_pool",
                                          !.run_migrations_on_startup = setting]]
    /\ UNCHANGED Others

\* init_db_pool is over.  What it raised is caught by the startup block and
\* the application goes on to serve; otherwise run_migrations starts when
\* the setting is on: it returns at once when the directory is missing, and
\* raises what get_pool raises
LifespanMigrate ==
    /\ db.lifespan.phase = "init_db_pool"
    /\ db.frame.pc = "idle"
    /\ \E dir_exists \in BOOLEAN :
        db' = IF db.frame.outcome = "raised"
              THEN [db EXCEPT !.lifespan.phase = "serving",
                              !.lifespan.caught = db.frame.raised]
              ELSE IF ~db.lifespan.run_migrations_on_startup \/ ~dir_exists
                      \/ Len(migration_files) = 0
              THEN [db EXCEPT !.lifespan.phase = "serving"]
              ELSE IF get_pool(db).raised # "none"
              THEN [db EXCEPT !.lifespan.phase = "serving",
                              !.lifespan.caught = Some(get_pool(db).raised)]
              ELSE [db EXCEPT !.lifespan.phase = "run_migrations"]
    /\ UNCHANGED Others

\* the next file of the list.  What _apply_migration raises is re-raised by
\* run_migrations and caught by the startup block
ApplyMigration ==
    /\ db.lifespan.phase = "run_migrations"
    /\ Len(db.lifespan.results) < Len(migration_files)
    /\ \E file \in MigrationFiles :
        LET result == _apply_migration(file)
            results == Append(db.lifespan.results,
                              IF result.raised = "none" THEN result.value ELSE "failed")
        IN  db' = IF result.raised # "none"
                  THEN [db EXCEPT !.lifespan.results = results,
                                  !.lifespan.phase = "serving",
                                  !.lifespan.caught = Some(result.raised)]
                  ELSE IF Len(results) = Len(migration_files)
                  THEN [db EXCEPT !.lifespan.results = results,
                                  !.lifespan.phase = "serving"]
                  ELSE [db EXCEPT !.lifespan.results = results]
    /\ UNCHANGED Others

LifespanShutdown ==
    /\ db.lifespan.phase = "serving"
    /\ db' = [close_db_pool(db) EXCEPT !.last = [op |-> "close_db_pool",
                                                 had_pool |-> db._pool],
                                       !.ready = FALSE,
                                       !.lifespan.phase = "stopped"]
    /\ UNCHANGED Others

NextStartup ==
    \/ LifespanStartup
    \/ CreatePool
    \/ RetrySleep
    \/ LifespanMigrate
    \/ ApplyMigration
    \/ LifespanShutdown

SpecStartup == Init /\ [][NextStartup]_vars

----------------------------------------------------------------------------
(* Requests and the pool's connections.  A request that takes the          *)
(* connection dependency waits in pool.acquire() until the pool has a      *)
(* connection to give, and gives it back when the request is over, however *)
(* it ends; get_schema_status acquires a connection of its own.            *)

MaxRequests == 11

InFlight == requests.at[<<"plain", "handling">>]
            + requests.at[<<"trade", "waiting">>] + requests.at[<<"trade", "handling">>]
            + requests.at[<<"schema", "waiting">>] + requests.at[<<"schema", "handling">>]
            + requests.at[<<"schema", "waiting_second">>]
            + requests.at[<<"schema", "handling_second">>]
            + requests.at[<<"schema", "responding">>]

Enter(r, place) == [r EXCEPT !.at[place] = r.at[place] + 1]
Leave(r, place) == [r EXCEPT !.at[place] = r.at[place] - 1]
acquire(r) == [r EXCEPT !.out = r.out + 1]
release(r) == [r EXCEPT !.out = r.out - 1]

Quiescent == <<trades, next_id, clock, supplied, call, inflight>>

\* startup went well: the pool exists
PoolUp ==
    /\ db._pool = None
    /\ db.frame.pc = "idle"
    /\ db' = [init_db_pool_attempt(init_db_pool(db, default_max_retries), "ok")
                 EXCEPT !.last = [op |-> "init_db_pool"],
                        !.ready = TRUE,
                        !.lifespan.phase = "serving"]
    /\ UNCHANGED <<Quiescent, requests>>

\* a request arrives (one that takes a connection with no pool up ends at
\* once with get_pool's RuntimeError and is left out)
Arrive ==
    /\ db._pool # None
    /\ InFlight < MaxRequests
    /\ \E endpoint \in Endpoints :
        requests' = Enter(requests, <<Handler(endpoint),
                                      IF takes_connection(endpoint)
                                      THEN "waiting" ELSE "handling">>)
    /\ UNCHANGED <<Quiescent, db>>

\* get_connection: pool.acquire() returns
AcquireConnection ==
    /\ requests.out < max_size
    /\ \E handler \in {"trade", "schema"} :
        /\ requests.at[<<handler, "waiting">>] > 0
        /\ requests' = acquire(Enter(Leave(requests, <<handler, "waiting">>),
                                     <<handler, "handling">>))
    /\ UNCHANGED <<Quiescent, db>>

\* the endpoint returns or raises, and get_connection's finally releases
\* (an endpoint that calls get_schema_status can end before the call:
\* SELECT 1 failed)
Respond ==
    /\ \E place \in {<<"plain", "handling">>, <<"trade", "handling">>,
                     <<"schema", "handling">>, <<"schema", "responding">>} :
        /\ requests.at[place] > 0
        /\ requests' = IF place[1] = "plain" THEN Leave(requests, place)
                       ELSE release(Leave(requests, place))
    /\ UNCHANGED <<Quiescent, db>>

\* get_schema_status: pool = get_pool(), then pool.acquire() is awaited
GetSchemaStatus ==
    /\ requests.at[<<"schema", "handling">>] > 0
    /\ requests' = Enter(Leave(requests, <<"schema", "handling">>),
                         <<"schema", "waiting_second">>)
    /\ UNCHANGED <<Quiescent, db>>

\* get_schema_status: pool.acquire() returns
AcquireSecond ==
    /\ requests.out < max_size
    /\ requests.at[<<"schema", "waiting_second">>] > 0
    /\ requests' = acquire(Enter(Leave(requests, <<"schema", "waiting_second">>),
                                 <<"schema", "handling_second">>))
    /\ UNCHANGED <<Quiescent, db>>

\* get_schema_status: the `async with` block is left, by return or by raise
ReleaseSecond ==
    /\ requests.at[<<"schema", "handling_second">>] > 0
    /\ requests' = release(Enter(Leave(requests, <<"schema", "handling_second">>),
                                 <<"schema", "responding">>))
    /\ UNCHANGED <<Quiescent, db>>

NextRequests ==
    \/ PoolUp
    \/ Arrive
    \/ AcquireConnection
    \/ Respond
    \/ GetSchemaStatus
    \/ AcquireSecond
    \/ ReleaseSecond

SpecRequests == Init /\ [][NextRequests]_vars

----------------------------------------------------------------------------
(* C1: _compute_pnl returns null whenever exit_price is null, for both     *)
(* sides; otherwise (exit_price - entry_price) * quantity * lot_size -     *)
(* fees for buy and (entry_price - exit_price) * quantity * lot_size -     *)
(* fees for sell.                                                          *)
C1_PnlFormula ==
    call.op = "_compute_pnl" =>
        /\ call.exit_price = None => call.result = None
        /\ call.exit_price # None =>
            LET diff == IF call.side = "buy"
                        THEN DecSub(call.exit_price[1], call.entry_price)
                        ELSE DecSub(call.entry_price, call.exit_price[1])
                gross == DecMul(DecMul(diff, call.quantity), call.lot_size)
            IN  call.result = Some(DecAdd(gross, DecNeg(call.fees)))

C1_Witness ==
    /\ call.op = "_compute_pnl"
    /\ call.side = "sell"
    /\ call.exit_price # None
    /\ call.result # None
    /\ DecLt(call.result[1], DecZero)

----------------------------------------------------------------------------
(* What the claims expect.                                                 *)

\* the PnL formula of a set of pricing values
ExpectedPnl(v) ==
    IF v.exit_price = None THEN None
    ELSE LET diff == IF v.side = "buy" THEN DecSub(v.exit_price[1], v.entry_price)
                     ELSE DecSub(v.entry_price, v.exit_price[1])
         IN  Some(DecSub(DecMul(DecMul(diff, v.quantity), v.lot_size), v.fees))

UpdatedExisting == call.op = "update_trade" /\ call.id \in DOMAIN call.before

(* C2: after update_trade on an existing trade with a payload that         *)
(* supplies no pnl, the stored pnl is the PnL formula of the merged        *)
(* values: the payload's where non-null, otherwise the value last          *)
(* supplied by create or an earlier update (lot_size included).            *)
C2_UpdateRecomputesPnl ==
    UpdatedExisting /\ call.trade_in.pnl = None =>
        /\ call.id \in DOMAIN trades
        /\ trades[call.id].pnl = ExpectedPnl(call.asked[1])

(* C3: after update_trade on an existing trade with a payload that         *)
(* supplies pnl, the pnl stored and returned is the supplied value.        *)
C3_SuppliedPnlIsStored ==
    UpdatedExisting /\ call.trade_in.pnl # None =>
        /\ call.result.raised = "none"
        /\ call.result.value # None
        /\ call.result.value[1].pnl = call.trade_in.pnl
        /\ call.id \in DOMAIN trades
        /\ trades[call.id].pnl = call.trade_in.pnl

(* C4: create_trade of a payload that passes validation persists and       *)
(* returns a trade whose pnl is the PnL formula of the payload (0          *)
(* included), and null when the payload has no exit_price.                 *)
C4_CreateStoresPnl ==
    call.op = "create_trade" /\ call.result.raised # "ValidationException" =>
        /\ call.id \in DOMAIN trades
        /\ trades[call.id].pnl = ExpectedPnl(Pricing(call.trade_in))
        /\ call.result.raised = "none"
        /\ call.result.value.pnl = ExpectedPnl(Pricing(call.trade_in))

----------------------------------------------------------------------------
\* a payload with every required field, parsable numbers and a valid side
C5_WellFormed ==
    /\ call.op = "validate_trade_data"
    /\ \A i \in 1..Len(required_fields) : ~Absent(call.data, required_fields[i])
    /\ \A i \in 1..Len(numeric_fields) :
            Absent(call.data, numeric_fields[i]) \/ IsNumber(call.data[numeric_fields[i]][1])
    /\ call.data["side"] \in {Some("buy"), Some("sell")}

(* C5: validate_trade_data rejects a payload that has every required       *)
(* field, parsable numbers and a valid side exactly when, for buy,         *)
(* stop_loss >= entry_price (field stop_loss) or take_profit <=            *)
(* entry_price (field take_profit), and for sell, stop_loss <= entry_price *)
(* or take_profit >= entry_price; every other such payload is accepted.    *)
C5_OrderingDecides ==
    C5_WellFormed =>
        LET e == call.data["entry_price"][1]
            sl == call.data["stop_loss"][1]
            tp == call.data["take_profit"][1]
            buy == call.data["side"] = Some("buy")
            slBad == IF buy THEN ~DecLt(sl, e) ELSE ~DecLt(e, sl)
            tpBad == IF buy THEN ~DecLt(e, tp) ELSE ~DecLt(tp, e)
        IN  /\ slBad => call.result = ValidationException("stop_loss")
            /\ ~slBad /\ tpBad => call.result = ValidationException("take_profit")
            /\ ~slBad /\ ~tpBad => call.result = Passed


C7_OpenHasNoPnl ==
    \A i \in DOMAIN trades :
        trades[i].exit_price = None \/ trades[i].exit_time = None => trades[i].pnl = None

\* a returned trade that has the payload's values
RoundTripFields == {"symbol", "side", "quantity", "lot_size", "entry_price", "entry_time",
                    "stop_loss", "take_profit", "exit_price", "exit_time", "fees", "notes"}

Carries(r, trade_in) ==
    /\ r.raised = "none"
    /\ \A f \in RoundTripFields : f \in DOMAIN r.value /\ r.value[f] = trade_in[f]

(* C8: a create_trade that passes validation returns a trade, and          *)
(* get_trade of its id returns a trade, both with the payload's symbol,    *)
(* side, quantity, lot_size, entry_price, entry_time, stop_loss,           *)
(* take_profit, exit_price, exit_time, fees and notes.                     *)
C8_CreateGetRoundTrip ==
    call.op = "create_trade" /\ call.result.raised # "ValidationException" =>
        /\ Carries(call.result, call.trade_in)
        /\ LET got == get_trade(trades, call.id)
           IN  got.raised = "none" /\ got.value # None
               /\ Carries(Ok(got.value[1]), call.trade_in)

\* a payload that sets notes and nothing else
NotesOnly(u) == u.notes # None /\ \A f \in DOMAIN u \ {"notes"} : u[f] = None

(* C9: update_trade with only notes on an existing open trade sets notes,  *)
(* leaves pnl null, changes no other field than updated_at and no other    *)
(* trade.                                                                  *)
C9_NotesOnlyUpdate ==
    /\ UpdatedExisting
    /\ NotesOnly(call.trade_in)
    /\ call.before[call.id].exit_price = None
    =>
    /\ DOMAIN trades = DOMAIN call.before
    /\ \A i \in DOMAIN trades \ {call.id} : trades[i] = call.before[i]
    /\ trades[call.id].notes = call.trade_in.notes
    /\ trades[call.id].pnl = None
    /\ \A c \in DOMAIN trades[call.id] \ {"notes", "updated_at"} :
            trades[call.id][c] = call.before[call.id][c]

(* C10: update_trade of an id with no stored record returns None, raises   *)
(* nothing and leaves the table as it was.                                 *)
C10_UpdateMissing ==
    call.op = "update_trade" /\ call.id \notin DOMAIN call.before =>
        /\ call.result = Ok(None)
        /\ trades = call.before

\* an update with changes, of an id that was deleted, with a trade left in the table
C10_Witness ==
    /\ call.op = "update_trade"
    /\ call.id \notin DOMAIN call.before
    /\ call.id > 0 /\ call.id < next_id
    /\ call.trade_in # NoChange
    /\ trades # << >>

(* C11: delete_trade(i) raises nothing and returns true exactly when a     *)
(* trade with id i existed just before the call (the endpoint answers 204  *)
(* then, and 404 otherwise); afterwards no trade has id i and every other  *)
(* trade is unchanged, so a second delete_trade(i) returns false and       *)
(* changes nothing.                                                        *)
C11_DeleteReportsRemoval ==
    call.op = "delete_trade" =>
        LET existed == call.id \in DOMAIN call.before
            again == delete_trade(trades, call.id)
        IN  /\ call.result = Ok(existed)
            /\ call.response.status_code =
                   IF existed THEN HTTP_204_NO_CONTENT ELSE HTTP_404_NOT_FOUND
            /\ call.id \notin DOMAIN trades
            /\ DOMAIN trades = DOMAIN call.before \ {call.id}
            /\ \A i \in DOMAIN trades : trades[i] = call.before[i]
            /\ again.result = Ok(FALSE)
            /\ again.trades = trades

\* a delete that removed one of two trades
C11_Witness ==
    /\ call.op = "delete_trade"
    /\ call.id \in DOMAIN call.before
    /\ call.result = Ok(TRUE)
    /\ trades # << >>

(* C12: over any sequence of creates, updates and deletes, a new trade     *)
(* gets an id no trade had before (ids only grow, and an id freed by a     *)
(* delete is not given again), and a trade that stays in the table keeps   *)
(* its id and created_at.                                                  *)
C12_IdsNeverReused ==
    [][ /\ next_id' >= next_id
        /\ \A i \in DOMAIN trades' : i < next_id' /\ trades'[i].id = i
        /\ \A i \in DOMAIN trades' \ DOMAIN trades : i >= next_id
        /\ \A i \in DOMAIN trades' \cap DOMAIN trades :
               /\ trades'[i].id = trades[i].id
               /\ trades'[i].created_at = trades[i].created_at ]_vars

\* a trade created after the delete of an earlier one
C12_Witness ==
    /\ call.op = "create_trade"
    /\ call.id \in DOMAIN trades
    /\ \E i \in 1..(call.id - 1) : i \notin DOMAIN trades

\* an update as the claims describe it: the payload's non-null fields
\* replace the stored ones, pnl is the supplied one or the formula of the
\* merged values
Updated(row, trade_in) ==
    LET Now(c) == IF c \notin DOMAIN trade_in \/ trade_in[c] = None THEN row[c]
                  ELSE IF c \in NullableColumns THEN trade_in[c] ELSE trade_in[c][1]
    IN  [c \in DOMAIN row |->
            IF c = "pnl"
            THEN (IF trade_in.pnl # None THEN trade_in.pnl
                  ELSE ExpectedPnl([f \in PricingFields |-> Now(f)]))
            ELSE Now(c)]

SameBut(row, other, columns) ==
    \A c \in DOMAIN row \ columns : row[c] = other[c]

BothEnded ==
    /\ \A p \in Procs : inflight.procs[p].pc = "done"
    /\ inflight.overlapped
    /\ inflight.procs[1].id \in DOMAIN inflight.base

\* the two concurrent runs leave what the program's own sequential run of
\* the two leaves
ConcurrentEqualsSequentialRun ==
    BothEnded =>
        LET first == inflight.procs[inflight.order[1]]
            last == inflight.procs[inflight.order[2]]
            one == update_trade(inflight.base, first.id, first.at, first.trade_in)
            two == update_trade(one.trades, last.id, last.at, last.trade_in)
        IN  trades = two.trades

(* C13: after two update_trade requests for the same id were served        *)
(* concurrently, their reads and writes interleaved in any order, the      *)
(* stored trade is, in every field but updated_at, the one that the two    *)
(* updates give when applied one after the other, the later writer last.   *)
C13_LastWriteWins ==
    BothEnded =>
        LET first == inflight.procs[inflight.order[1]]
            last == inflight.procs[inflight.order[2]]
            id == first.id
            expected == Updated(Updated(inflight.base[id], first.trade_in), last.trade_in)
        IN  /\ id \in DOMAIN trades
            /\ SameBut(trades[id], expected, {"updated_at"})

\* the stored trades a symbol filter selects: all without a filter,
\* otherwise those whose symbol is the normalised filter
Matching(tbl, symbol) ==
    {i \in DOMAIN tbl : symbol = None \/ tbl[i].symbol = normalize_symbol(symbol[1])}

Listed == call.op = "list_trades"

\* the ids of the trades a list call returned, in the order returned
ReturnedIds == [k \in 1..Len(call.result.value) |-> call.result.value[k].id]

(* C14: list_trades(symbol, limit, offset) returns the elements at         *)
(* positions offset .. offset+limit-1 of the matching trades ordered by    *)
(* entry_time descending, then id descending, and so at most limit items.  *)
C14_ListReturnsPage ==
    Listed =>
        LET ordered == OrderedIds(call.before, Matching(call.before, call.symbol))
            last == IF call.offset + call.limit < Len(ordered)
                    THEN call.offset + call.limit ELSE Len(ordered)
        IN  /\ call.result.raised = "none"
            /\ ReturnedIds = SubSeq(ordered, call.offset + 1, last)
            /\ Len(call.result.value) <= call.limit

(* C15: the total the list endpoint reports is the number of stored        *)
(* trades that match the symbol filter, whatever limit and offset are      *)
(* (zero items and zero total on an empty table), and the page count is    *)
(* derived from that total.                                                *)
C15_TotalCountsMatches ==
    Listed =>
        LET total == Cardinality(Matching(call.before, call.symbol))
        IN  /\ call.response.status_code = HTTP_200_OK
            /\ call.response.body.pagination.total = total
            /\ call.response.body.pagination.pages =
                   (total + call.limit - 1) \div call.limit
            /\ call.before = << >> => call.response.body.trades = << >>

(* C16: for every filter string, list_trades returns exactly the trades    *)
(* whose stored symbol is the normalisation of the filter (the one applied *)
(* to symbols on create), and all trades when no filter is given; taken    *)
(* on a page that has room for every trade.                                *)
C16_FilterIsNormalised ==
    Listed /\ call.offset = 0 /\ call.limit >= Cardinality(DOMAIN call.before) =>
        /\ call.result.raised = "none"
        /\ {ReturnedIds[k] : k \in DOMAIN ReturnedIds} = Matching(call.before, call.symbol)

(* C17: every stored symbol is uppercase, has no leading or trailing       *)
(* blank and has between 1 and 20 characters, whatever accepted input it   *)
(* came from.                                                              *)
C17_StoredSymbolNormalised ==
    \A i \in DOMAIN trades :
        LET sym == trades[i].symbol
        IN  /\ \A k \in 1..Len(sym) : Upper(sym[k]) = sym[k]
            /\ Len(sym) >= MinSymbolLen /\ Len(sym) <= MaxSymbolLen
            /\ sym[1] # " " /\ sym[Len(sym)] # " "

(* C18: a ValidationException raised while a trade is created reaches the  *)
(* caller as a validation error, code VALIDATION_ERROR with status 422,    *)
(* not as an internal error, and no trade is persisted.                    *)
C18_ValidationErrorSurfaced ==
    call.op = "create_trade" /\ call.result.raised = "ValidationException" =>
        /\ call.response.code = "VALIDATION_ERROR"
        /\ call.response.status_code = HTTP_422_UNPROCESSABLE_ENTITY
        /\ trades = call.before

(* C19: a storage failure during a trade operation (create, read, list,    *)
(* update, delete), connectivity or query, is not retried and reaches the  *)
(* caller with status 503 and code DATABASE_ERROR.                         *)
C19_StorageErrorSurfaced ==
    call.op = "failing" /\ call.exc.raised \in StorageFailures =>
        /\ call.attempts = 1
        /\ call.response.status_code = HTTP_503_SERVICE_UNAVAILABLE
        /\ call.response.code = "DATABASE_ERROR"

(* C20: for an unexpected failure inside a trade operation the response    *)
(* is a generic internal error that does not depend on the failure's       *)
(* message: the same request with the same failure under another message   *)
(* gets the same response.                                                 *)
C20_ResponseHidesMessage ==
    call.op = "failing" /\ call.at = "statement" =>
        /\ call.response.code = "INTERNAL_ERROR"
        /\ \A m \in FailureMessages :
               failing_response(call.operation, call.at, Failure(call.exc.raised, m),
                                call.id, call.trade_in) = call.response

(* C24: for a buy with exit_price > entry_price the PnL before fees        *)
(* (pnl + fees) is strictly positive, and a fee above 0 makes pnl strictly *)
(* smaller than it is with fee 0; for a sell with exit_price < entry_price *)
(* the PnL before fees is strictly positive.                               *)
C24_WinningTradesArePositive ==
    call.op = "_compute_pnl" /\ call.exit_price # None =>
        LET won == IF call.side = "buy" THEN DecLt(call.entry_price, call.exit_price[1])
                   ELSE DecLt(call.exit_price[1], call.entry_price)
            free == _compute_pnl(call.side, call.quantity, call.lot_size,
                                 call.entry_price, call.exit_price, DecZero)
        IN  won =>
                /\ DecLt(DecZero, DecAdd(call.result[1], call.fees))
                /\ call.side = "buy" /\ DecLt(DecZero, call.fees) =>
                       DecLt(call.result[1], free[1])

\* a winning buy that paid a fee
C24_Witness ==
    /\ call.op = "_compute_pnl"
    /\ call.side = "buy"
    /\ call.exit_price # None
    /\ DecLt(call.entry_price, call.exit_price[1])
    /\ DecLt(DecZero, call.fees)
    /\ DecLt(DecZero, DecAdd(call.result[1], call.fees))

\* what an init_db_pool call has done so far is what the retry loop allows
RetriesInOrder ==
    LET f == db.frame
        failed == Len(f.errors)
    IN  /\ f.attempts <= f.max_retries
        /\ f.attempts \in {failed, failed + 1}
        /\ f.attempts = failed + 1 => f.pc = "idle" /\ f.outcome = "returned"
        /\ f.pc = "for" => f.sleeps = failed
        /\ f.pc = "sleep" => f.sleeps = failed - 1 /\ f.attempts < f.max_retries
        /\ f.pc = "idle" /\ f.outcome = "returned" => f.sleeps = failed
        /\ f.outcome = "raised" =>
               /\ f.pc = "idle"
               /\ f.attempts = f.max_retries
               /\ failed = f.max_retries
               /\ f.sleeps = failed - 1
               /\ f.raised = Some(f.errors[failed])
        /\ f.pc = "idle" /\ f.had_pool = None /\ f.max_retries >= 1
           /\ failed = f.max_retries => f.outcome = "raised"

(* C21: init_db_pool makes at most max_retries pool-creation attempts,     *)
(* sleeps between consecutive failed attempts and never after the last     *)
(* one, stops at the first successful attempt, raises the last error once  *)
(* all max_retries attempts have failed, and always terminates.            *)
C21_BoundedRetries ==
    /\ []RetriesInOrder
    /\ (db.frame.pc # "idle") ~> (db.frame.pc = "idle")

\* three attempts failed, with a sleep after the first and after the second
C21_Witness ==
    /\ db.frame.outcome = "raised"
    /\ db.frame.max_retries = 3
    /\ db.frame.attempts = 3
    /\ db.frame.sleeps = 2
    /\ db.frame.raised = Some(db.frame.errors[3])
    /\ db.frame.errors[3] # db.frame.errors[1]

(* C30: whenever init_db_pool returns normally the global pool is          *)
(* initialized, for every value of max_retries, 0 included.                *)
C30_ReturnedMeansInitialized ==
    db.last.op = "init_db_pool" /\ db.frame.pc = "idle"
    /\ db.frame.outcome = "returned" => db._pool # None

\* get_pool gives the pool exactly when an init_db_pool call has succeeded
\* since the last close_db_pool; an init_db_pool call that found a pool made
\* no attempt and left that pool in place
PoolWhenReady ==
    /\ get_pool(db).raised = "none" <=> db.ready
    /\ get_pool(db).raised # "none" => get_pool(db).raised = "RuntimeError"
    /\ db.last.op = "get_pool" => db.last.result = get_pool(db)
    /\ db.frame.had_pool # None =>
           /\ db.frame.attempts = 0
           /\ db.frame.outcome = "returned"
           /\ db.last.op = "init_db_pool" => db._pool = db.frame.had_pool
    /\ db.last.op = "close_db_pool" => db._pool = None

\* close_db_pool with no pool changes nothing of the module's state
CloseWithoutPool ==
    db'.last.op = "close_db_pool" /\ db._pool = None =>
        /\ db'._pool = None
        /\ db'.created = db.created
        /\ db'.frame = db.frame

(* C29: get_pool returns a pool if and only if an init_db_pool call has    *)
(* succeeded since the last close_db_pool, and raises otherwise;           *)
(* init_db_pool while a pool exists makes no creation attempt and keeps    *)
(* the existing pool; close_db_pool when no pool exists is a no-op.        *)
C29_PoolLifecycle == []PoolWhenReady /\ [][CloseWithoutPool]_vars

\* a pool was created and closed, and get_pool raises again
C29_Witness ==
    /\ db.created >= 1
    /\ db.last.op = "get_pool"
    /\ db.last.result.raised = "RuntimeError"
    /\ ~db.ready

(* C22: if applying a migration script fails during startup, startup       *)
(* fails: the application never reaches the state in which it serves       *)
(* requests.                                                               *)
C22_MigrationFailureIsFatal ==
    db.lifespan.phase = "serving" =>
        \A i \in 1..Len(db.lifespan.results) : db.lifespan.results[i] # "failed"

(* C23: every operation holds at most one pool connection at any time and  *)
(* has released what it acquired when it completes; so the connections     *)
(* checked out never exceed the operations in flight nor the pool bound,   *)
(* and are none when no operation is in flight.                            *)
C23_OneConnectionPerOperation ==
    /\ requests.at[<<"schema", "handling_second">>] = 0
    /\ requests.out <= InFlight
    /\ requests.out <= max_size
    /\ InFlight = 0 => requests.out = 0

\* a request that waits in pool.acquire()
Waiting ==
    requests.at[<<"trade", "waiting">>] + requests.at[<<"schema", "waiting">>]
    + requests.at[<<"schema", "waiting_second">>]

(* C25: with a pool of N connections and any number of concurrent          *)
(* requests, detailed health checks included, the system never reaches a   *)
(* state in which every in-flight request is waiting for a connection      *)
(* that no request can give back.                                          *)
C25_NeverAllWaiting ==
    ~(/\ InFlight > 0
      /\ Waiting = InFlight
      /\ requests.out = max_size)

\* a caller supplies a pnl, and later only notes
PnlSupplied == TradeUpdate([NoChange EXCEPT !.pnl = Some(D(7))])
NotesSupplied == TradeUpdate([NoChange EXCEPT !.notes = Some("n2")])

(* C26: a pnl value explicitly supplied in an update stays the stored pnl  *)
(* of that trade across a later update that supplies neither pnl nor any   *)
(* field entering the PnL formula (a notes-only update).                   *)
C26_SuppliedPnlStays ==
    \A i \in DOMAIN trades :
        LET first == update_trade(trades, i, clock, PnlSupplied)
            second == update_trade(first.trades, i, clock + 1, NotesSupplied)
        IN  /\ first.trades[i].pnl = Some(ToFloat(D(7)))
            /\ second.trades[i].pnl = Some(ToFloat(D(7)))

\* update payloads around the exit fields
ExitRequests ==
    UpdateRequests \cup {[NoChange EXCEPT !.exit_time = Some(3)],
                         [NoChange EXCEPT !.exit_time = Some(3), !.exit_price = Some(D(4))]}

\* a non-null exit_price, and a non-null exit_time, of a trade that is still
\* there is non-null afterwards
StaysClosed(before, after) ==
    \A i \in DOMAIN before \cap DOMAIN after :
        /\ before[i].exit_price # None => after[i].exit_price # None
        /\ before[i].exit_time # None => after[i].exit_time # None

\* the UPDATE statement built from any payload, executed on a stored trade
UpdateKeepsClosed ==
    \A i \in DOMAIN trades, raw \in ExitRequests :
        TradeUpdateAccepts(raw) =>
            StaysClosed(trades, repo_update_execute(trades, i, clock, TradeUpdate(raw),
                                                    None).trades)

(* C28: once a stored trade has a non-null exit_price (exit_time), no      *)
(* update makes that field null again: a null field in an update payload   *)
(* means absent, so a closed trade stays closed until it is deleted.       *)
C28_ClosedStaysClosed ==
    /\ []UpdateKeepsClosed
    /\ [][call'.op = "update_trade" => StaysClosed(trades, trades')]_vars

\* an update without exit fields was asked of a closed trade
C28_Witness ==
    /\ call.op = "update_trade"
    /\ call.id \in DOMAIN call.before
    /\ call.before[call.id].exit_price # None
    /\ call.before[call.id].exit_time # None
    /\ call.trade_in.exit_price = None
    /\ call.trade_in.exit_time = None
    /\ trades[call.id].exit_price # None

\* an update whose trade was deleted while it was being served ended with the
\* not-found signal, and what was deleted is not in the table
DeletedStaysDeleted ==
    /\ \A i \in inflight.deleted : i \notin DOMAIN trades
    /\ \A p \in Procs :
           inflight.procs[p].pc = "done" /\ inflight.procs[p].gone =>
               inflight.procs[p].result = Ok(None)

\* each statement of an update, executed after its trade was deleted: the
\* reads find nothing and end the update with the not-found signal, the
\* UPDATE finds no row, returns nothing and leaves the table as it is
StatementsAfterDelete ==
    \A i \in DOMAIN trades, raw \in ConcurrentRequests :
        LET gone == delete_trade(trades, i).trades
            trade_in == TradeUpdate(raw)
            read == update_trade_existing(gone, i, trade_in)
            current == repo_update_current(gone, i)
            executed == repo_update_execute(gone, i, clock, trade_in, None)
        IN  /\ i \notin DOMAIN gone
            /\ read.done /\ read.result = Ok(None)
            /\ current.done /\ current.result = Ok(None)
            /\ executed.result = Ok(None) /\ executed.trades = gone /\ ~executed.wrote

\* an update that returns a trade returns one that is in the table
ReturnsWhatExists ==
    \A p \in Procs :
        /\ inflight.procs[p].pc # "done"
        /\ inflight'.procs[p].pc = "done"
        /\ inflight'.procs[p].result.raised = "none"
        /\ inflight'.procs[p].result.value # None
        => inflight.procs[p].id \in DOMAIN trades'

=============================================================================
